---- MODULE Spec2Model ----
(***************************************************************************)
(* adpwned: matching account password hashes against a sorted reference    *)
(* file of "HASH:COUNT" lines (src/src/main.rs).                            *)
(*                                                                         *)
(* The reference file is a sequence of bytes (ASCII codes); the stream     *)
(* position is a byte offset; read_line, trim, split, cmp and parse are     *)
(* computed on the bytes as the code computes them.  jump_search is cut    *)
(* into its steps (jump read, jump seek, backtrack, scan) and the loop of  *)
(* main that drives it is the pair CacheHit / CallJumpSearch.              *)
(***************************************************************************)
EXTENDS Integers, Sequences, FiniteSets, TLC

VARIABLES
    ref,          \* the reference file as entries (what the file was rendered from)
    file,         \* the reference file as bytes
    w,            \* width in bytes of the hashes of this run
    pos,          \* stream position of `reader`
    pc,           \* "users" | "jump" | "seek" | "back" | "scan" | "panic"
    hash,         \* jump_search: the target
    start,        \* jump_search: position at entry
    step,         \* jump_search: the jump width
    stop_at,      \* jump_search: position where the jump phase stopped
    line,         \* jump_search: the line buffer
    last_hash,    \* main: hash of the previous user
    last_pwned,   \* main: count cached for last_hash
    pwned_users,  \* main: number of rows reported
    users,        \* main: the hashes of the users taken from the sorted batch so far
    out,          \* main: rows written to the report
    results,      \* history: what the closure yielded for each user handled
    ret,          \* history: value returned by the last jump_search call
    calls,        \* history: number of jump_search calls
    moved,        \* history: bytes read plus seek distances of the last call
    jumped,       \* history: the previous jump point of the call (end of the last Less line)
    left,         \* find_hash: lower bound of the binary search
    right         \* find_hash: upper bound of the binary search (-1 is the wrapped u64)

vars == <<ref, file, w, pos, pc, hash, start, step, stop_at, line, last_hash,
          last_pwned, pwned_users, users, out, results, ret, calls, moved, jumped,
          left, right>>

input == <<ref, file, w>>
search == <<hash, start, step, stop_at, line>>
cache == <<last_hash, last_pwned>>
find == <<left, right>>

-----------------------------------------------------------------------------
(* Bounds of the model *)

MaxLines == 3
MaxQueries == 4

Letters == {65, 66, 67, 68}
KeyWidths == {1, 4}

-----------------------------------------------------------------------------
(* Option<usize> *)

None == [tag |-> "None", v |-> 0]
Some(c) == [tag |-> "Some", v |-> c]

-----------------------------------------------------------------------------
(* The reference file: "<HASH>:<COUNT>\n" lines rendered to bytes *)

NL == 10
COLON == 58

RECURSIVE Digits(_)
Digits(c) == IF c < 10 THEN <<48 + c>> ELSE Digits(c \div 10) \o <<48 + (c % 10)>>

KeyStr(letter, width) == [i \in 1..width |-> letter]

LineBytes(e) ==
    e.key \o (CASE e.kind = "ok" -> <<COLON>> \o Digits(e.cnt)
                [] e.kind = "nocolon" -> <<>>
                [] e.kind = "noint" -> <<COLON, 120>>) \o <<NL>>

RECURSIVE Render(_)
Render(r) == IF r = <<>> THEN <<>> ELSE LineBytes(Head(r)) \o Render(Tail(r))

ShortCount(letter) ==
    CASE letter = 65 -> 5 [] letter = 66 -> 2 [] letter = 67 -> 9 [] OTHER -> 3

EntryChoices(letter, width) ==
    { [key |-> KeyStr(letter, width), kind |-> "ok", cnt |-> ShortCount(letter)],
      [key |-> KeyStr(letter, width), kind |-> "ok", cnt |-> 100000000],
      [key |-> KeyStr(letter, width), kind |-> "nocolon", cnt |-> 0],
      [key |-> KeyStr(letter, width), kind |-> "noint", cnt |-> 0] }

Nth(S, i) == CHOOSE x \in S : Cardinality({y \in S : y < x}) = i - 1

RefFiles(width) ==
    UNION { { [i \in 1..Cardinality(ls) |-> f[Nth(ls, i)]] :
                f \in { g \in [ls -> UNION {EntryChoices(l, width) : l \in ls}] :
                          \A l \in ls : g[l] \in EntryChoices(l, width) } } :
            ls \in {s \in SUBSET Letters : Cardinality(s) <= MaxLines} }

\* the file of the single entry Z..Z:1
SingleEntry(width) == <<[key |-> KeyStr(90, width), kind |-> "ok", cnt |-> 1]>>

\* a longer well-formed file of one-byte keys, A, D, E, F, ... in order without Z;
\* lines 3..6 and 22..25 carry a short count, the other lines after the first the
\* long one, which makes step 21
DriftKey(i) == IF i = 1 THEN 65 ELSE IF i < 24 THEN 66 + i ELSE 67 + i

DriftRef ==
    [i \in 1..43 |->
       [key |-> <<DriftKey(i)>>,
        kind |-> "ok",
        cnt |-> IF i \in {1} \cup 3..6 \cup 22..25 THEN ShortCount(DriftKey(i))
                ELSE 100000000]]

\* the reference files of a run of the given key width
Files(width) ==
    RefFiles(width) \cup {SingleEntry(width)} \cup (IF width = 1 THEN {DriftRef} ELSE {})

Hashes(width) == {KeyStr(l, width) : l \in Letters \cup {90}}

WellFormed == \A i \in 1..Len(ref) : ref[i].kind = "ok"

-----------------------------------------------------------------------------
(* Line reading and the probe of a line *)

n == Len(file)

\* floor(sqrt(len)) clamped to 1
Step(len) == LET s == CHOOSE k \in 0..len : k * k <= len /\ (k + 1) * (k + 1) > len
             IN IF s < 1 THEN 1 ELSE s

\* the bytes read_line appends when the stream is at offset p
ReadLine(p) ==
    IF p >= Len(file) THEN <<>>
    ELSE LET ends == {j \in (p + 1)..Len(file) : file[j] = NL \/ j = Len(file)}
             e == CHOOSE j \in ends : \A k \in ends : j <= k
         IN SubSeq(file, p + 1, e)

IsSpace(b) == b \in {9, 10, 11, 12, 13, 32}

Trim(s) ==
    LET keep == {i \in 1..Len(s) : ~IsSpace(s[i])}
    IN IF keep = {} THEN <<>>
       ELSE SubSeq(s, CHOOSE i \in keep : \A k \in keep : i <= k,
                      CHOOSE i \in keep : \A k \in keep : i >= k)

RECURSIVE Split(_)
Split(s) ==
    LET cs == {i \in 1..Len(s) : s[i] = COLON}
    IN IF cs = {} THEN <<s>>
       ELSE LET c == CHOOSE i \in cs : \A k \in cs : i <= k
            IN <<SubSeq(s, 1, c - 1)>> \o Split(SubSeq(s, c + 1, Len(s)))

Cmp(a, b) ==
    LET m == IF Len(a) < Len(b) THEN Len(a) ELSE Len(b)
        d == {i \in 1..m : a[i] # b[i]}
    IN IF d = {}
       THEN (IF Len(a) < Len(b) THEN "Less"
             ELSE IF Len(a) > Len(b) THEN "Greater" ELSE "Equal")
       ELSE LET i == CHOOSE j \in d : \A k \in d : j <= k
            IN IF a[i] < b[i] THEN "Less" ELSE "Greater"

\* usize::from_str accepts an optional leading '+' and then one or more digits
Unsigned(s) == IF Len(s) > 0 /\ s[1] = 43 THEN Tail(s) ELSE s

IsNumber(s) == Len(Unsigned(s)) > 0 /\ \A i \in 1..Len(Unsigned(s)) : Unsigned(s)[i] \in 48..57

RECURSIVE ParseDigits(_)
ParseDigits(s) == IF s = <<>> THEN 0
                  ELSE 10 * ParseDigits(SubSeq(s, 1, Len(s) - 1)) + (s[Len(s)] - 48)

Parse(s) == ParseDigits(Unsigned(s))

\* Probe without the trim of the line
ProbeUntrimmed(buf, h) ==
    LET split_line == Split(buf)
        ord == Cmp(split_line[1], h)
    IN IF ord # "Equal" THEN [tag |-> ord, v |-> 0]
       ELSE IF Len(split_line) >= 2 /\ IsNumber(split_line[2])
            THEN [tag |-> "Equal", v |-> Parse(split_line[2])]
            ELSE [tag |-> "Panic", v |-> 0]

\* Probe with a count that defaults to 0 instead of unwrapping
ProbeLenient(buf, h) ==
    LET split_line == Split(Trim(buf))
        ord == Cmp(split_line[1], h)
    IN IF ord # "Equal" THEN [tag |-> ord, v |-> 0]
       ELSE IF Len(split_line) >= 2 /\ IsNumber(split_line[2])
            THEN [tag |-> "Equal", v |-> Parse(split_line[2])]
            ELSE [tag |-> "Equal", v |-> 0]

\* Probe with the operands of cmp exchanged
ProbeReversed(buf, h) ==
    LET split_line == Split(Trim(buf))
        ord == Cmp(h, split_line[1])
    IN IF ord # "Equal" THEN [tag |-> ord, v |-> 0]
       ELSE IF Len(split_line) >= 2 /\ IsNumber(split_line[2])
            THEN [tag |-> "Equal", v |-> Parse(split_line[2])]
            ELSE [tag |-> "Panic", v |-> 0]

\* split_line[0].cmp(hash), and split_line[1].parse().unwrap() on Equal
Match(split_line, h) ==
    LET ord == Cmp(split_line[1], h)
    IN IF ord # "Equal" THEN [tag |-> ord, v |-> 0]
       ELSE IF Len(split_line) >= 2 /\ IsNumber(split_line[2])
            THEN [tag |-> "Equal", v |-> Parse(split_line[2])]
            ELSE [tag |-> "Panic", v |-> 0]

\* line.trim().split(':') and the match on it; the trimmed line and its parts are
\* bound as set members so that each is computed once
Probe(buf, h) ==
    CHOOSE r \in { Match(split_line, h) :
                     split_line \in { Split(t) : t \in {Trim(buf)} } } : TRUE

-----------------------------------------------------------------------------
(* main: the loop over the sorted users *)

Init ==
    /\ w \in KeyWidths
    /\ ref \in Files(w)
    /\ file = Render(ref)
    /\ pos = 0
    /\ pc = "users"
    /\ hash = <<>>
    /\ start = 0
    /\ step = 1
    /\ stop_at = 0
    /\ line = <<>>
    /\ last_hash = <<>>
    /\ last_pwned = 0
    /\ pwned_users = 0
    /\ users = <<>>
    /\ out = <<>>
    /\ results = <<>>
    /\ ret = None
    /\ calls = 0
    /\ moved = 0
    /\ jumped = 0
    /\ left = 0
    /\ right = 0

\* users is sorted by password: the next user's hash is not below the last one's
NextUsers ==
    {q \in Hashes(w) : users = <<>> \/ Cmp(users[Len(users)], q) # "Greater"}

\* the fast path taken only when the cached count is a real one
IsCachedWhenPwned(q) == q = last_hash /\ last_pwned > 0

IsCached(q) == q = last_hash

\* the closure's fast path: the user has the hash of the previous user
CacheHit ==
    /\ pc = "users"
    /\ Len(users) < MaxQueries
    /\ \E q \in NextUsers :
         /\ IsCached(q)
         /\ users' = Append(users, q)
         /\ pwned_users' = pwned_users + 1
         /\ out' = Append(out, [user |-> Len(users) + 1, pwned |-> last_pwned])
         /\ results' = Append(results, Some(last_pwned))
    /\ UNCHANGED <<input, pos, pc, search, cache, ret, calls, moved, jumped, find>>

\* the closure's slow path up to the entry of jump_search and its first seeks
CallJumpSearch ==
    /\ pc = "users"
    /\ Len(users) < MaxQueries
    /\ \E q \in NextUsers :
         /\ ~IsCached(q)
         /\ users' = Append(users, q)
         /\ last_hash' = q
         /\ hash' = q
    /\ start' = pos
    /\ step' = Step(n)
    /\ line' = <<>>
    /\ stop_at' = 0
    /\ moved' = (IF n >= pos THEN n - pos ELSE pos - n) * 2
    /\ calls' = calls + 1
    /\ pc' = "jump"
    /\ jumped' = pos
    /\ UNCHANGED <<input, pos, last_pwned, pwned_users, out, results, ret, find>>

\* Return with None reported as a count of 0 instead of being dropped
ReturnReportsNone(r) ==
    /\ pc' = "users"
    /\ ret' = r
    /\ results' = Append(results, r)
    /\ last_pwned' = r.v
    /\ pwned_users' = pwned_users + 1
    /\ out' = Append(out, [user |-> Len(users), pwned |-> r.v])

\* jump_search returns r to the closure: `?` drops None, Some(c) is cached and reported
Return(r) ==
    /\ pc' = "users"
    /\ ret' = r
    /\ results' = Append(results, r)
    /\ IF r = None
       THEN UNCHANGED <<last_pwned, pwned_users, out>>
       ELSE /\ last_pwned' = r.v
            /\ pwned_users' = pwned_users + 1
            /\ out' = Append(out, [user |-> Len(users), pwned |-> r.v])

\* an unwrap fails: the process stops
Panic ==
    /\ pc' = "panic"
    /\ UNCHANGED <<last_pwned, pwned_users, out, results, ret>>

Stay(next) ==
    /\ pc' = next
    /\ UNCHANGED <<last_pwned, pwned_users, out, results, ret>>

\* what follows the comparison of a line, in the jump loop and in the scan loop
AfterProbe(p, onLess) ==
    CASE p.tag = "Equal" -> Return(Some(p.v))
      [] p.tag = "Panic" -> Panic
      [] p.tag = "Less" -> Stay(onLess)
      [] p.tag = "Greater" -> IF onLess = "seek" THEN Stay("back") ELSE Return(None)

-----------------------------------------------------------------------------
(* jump_search *)

\* JumpRead that goes round the loop again at end of stream instead of returning
JumpReadNoEof ==
    /\ pc = "jump"
    /\ \E got \in {ReadLine(pos)} : \E p \in {Probe(line \o got, hash)} :
         IF Len(got) = 0
         THEN UNCHANGED <<line, pos, moved, jumped, pc, last_pwned, pwned_users, out,
                          results, ret>>
         ELSE /\ line' = line \o got
              /\ pos' = pos + Len(got)
              /\ moved' = moved + Len(got)
              /\ AfterProbe(p, "seek")
              /\ jumped' = IF p.tag = "Less" THEN pos + Len(got) ELSE jumped
    /\ UNCHANGED <<input, hash, start, step, stop_at, last_hash, users, calls, find>>

\* top of the jump loop: read a line and compare it
JumpRead ==
    /\ pc = "jump"
    /\ \E got \in {ReadLine(pos)} : \E p \in {Probe(line \o got, hash)} :
         /\ line' = line \o got
         /\ pos' = pos + Len(got)
         /\ moved' = moved + Len(got)
         /\ IF Len(got) = 0 THEN Return(None) ELSE AfterProbe(p, "seek")
         /\ jumped' = IF Len(got) > 0 /\ p.tag = "Less" THEN pos + Len(got) ELSE jumped
    /\ UNCHANGED <<input, hash, start, step, stop_at, last_hash, users, calls, find>>

\* bottom of the jump loop: seek step bytes on, read to the end of that line, clear
JumpSeek ==
    /\ pc = "seek"
    /\ \E got \in {ReadLine(pos + step)} :
         /\ pos' = pos + step + Len(got)
         /\ moved' = moved + step + Len(got)
    /\ line' = <<>>
    /\ pc' = "jump"
    /\ UNCHANGED <<input, hash, start, step, stop_at, cache, pwned_users, users, out,
                   results, ret, calls, jumped, find>>

\* after the jump loop: note stop_at, seek step bytes back, read the partial line
Backtrack ==
    /\ pc = "back"
    /\ stop_at' = pos
    /\ IF pos - step < 0
       THEN /\ pc' = "panic"
            /\ UNCHANGED <<pos, line, moved>>
       ELSE \E got \in {ReadLine(pos - step)} :
               /\ pos' = pos - step + Len(got)
               /\ line' = line \o got
               /\ moved' = moved + step + Len(got)
               /\ pc' = "scan"
    /\ UNCHANGED <<input, hash, start, step, cache, pwned_users, users, out,
                   results, ret, calls, jumped, find>>

\* Scan without line.clear(): the line read is appended to what the buffer holds
ScanNoClear ==
    /\ pc = "scan"
    /\ IF pos < stop_at
       THEN \E got \in {ReadLine(pos)} : \E p \in {Probe(line \o got, hash)} :
               /\ line' = line \o got
               /\ pos' = pos + Len(got)
               /\ moved' = moved + Len(got)
               /\ AfterProbe(p, "scan")
       ELSE /\ Return(None)
            /\ UNCHANGED <<pos, line, moved>>
    /\ UNCHANGED <<input, hash, start, step, stop_at, last_hash, users, calls, jumped, find>>

\* Scan that goes on while the position is at or before stop_at
ScanThrough ==
    /\ pc = "scan"
    /\ IF pos <= stop_at
       THEN \E got \in {ReadLine(pos)} : \E p \in {Probe(got, hash)} :
               /\ line' = got
               /\ pos' = pos + Len(got)
               /\ moved' = moved + Len(got)
               /\ AfterProbe(p, "scan")
       ELSE /\ Return(None)
            /\ UNCHANGED <<pos, line, moved>>
    /\ UNCHANGED <<input, hash, start, step, stop_at, last_hash, users, calls, jumped, find>>

\* the linear scan up to stop_at
Scan ==
    /\ pc = "scan"
    /\ IF pos < stop_at
       THEN \E got \in {ReadLine(pos)} : \E p \in {Probe(got, hash)} :
               /\ line' = got
               /\ pos' = pos + Len(got)
               /\ moved' = moved + Len(got)
               /\ AfterProbe(p, "scan")
       ELSE /\ Return(None)
            /\ UNCHANGED <<pos, line, moved>>
    /\ UNCHANGED <<input, hash, start, step, stop_at, last_hash, users, calls, jumped, find>>

Next == CacheHit \/ CallJumpSearch \/ JumpRead \/ JumpSeek \/ Backtrack \/ Scan

Spec == Init /\ [][Next]_vars

\* jump_search is sequential code: once entered, its next step is always taken
FairSpec == Init /\ [][Next]_vars /\ WF_vars(JumpRead \/ JumpSeek \/ Backtrack \/ Scan)

-----------------------------------------------------------------------------
(* find_hash: the standalone binary search over byte offsets *)

\* find_hash is entered on a freshly opened file: left = 0, right = seek(End(0))
InitFind ==
    /\ w \in KeyWidths
    /\ ref \in Files(w)
    /\ file = Render(ref)
    /\ hash \in Hashes(w)
    /\ pos = Len(file)
    /\ pc = "find"
    /\ left = 0
    /\ right = Len(file)
    /\ line = <<>>
    /\ ret = None
    /\ start = 0
    /\ step = 1
    /\ stop_at = 0
    /\ last_hash = <<>>
    /\ last_pwned = 0
    /\ pwned_users = 0
    /\ users = <<>>
    /\ out = <<>>
    /\ results = <<>>
    /\ calls = 0
    /\ moved = 0
    /\ jumped = 0

\* left + (right - left) / 2
Mid == left + (right - left) \div 2

\* the line compared in this iteration: the second read_line after the seek to mid
MidLine == ReadLine(Mid + Len(ReadLine(Mid)))

\* right = mid - 1 on u64: with mid = 0 the subtraction panics in a build with
\* overflow checks and wraps to u64::MAX (written -1 here) in a build without
RightBelow(mid) ==
    IF mid >= 1
    THEN right' = mid - 1 /\ UNCHANGED <<pc, ret, left>>
    ELSE \/ pc' = "panic" /\ UNCHANGED <<ret, left, right>>
         \/ right' = -1 /\ UNCHANGED <<pc, ret, left>>

\* one iteration of `while left <= right`, or the return of None after the loop
FindStep ==
    /\ pc = "find"
    /\ right >= 0
    /\ IF left > right
       THEN /\ pc' = "done"
            /\ ret' = None
            /\ UNCHANGED <<pos, line, left, right>>
       ELSE \E mid \in {Mid} : \E got \in {MidLine} : \E p \in {Probe(got, hash)} :
               /\ pos' = mid + Len(ReadLine(mid)) + Len(got)
               /\ line' = got
               /\ CASE p.tag = "Equal" -> /\ pc' = "done"
                                          /\ ret' = Some(p.v)
                                          /\ UNCHANGED <<left, right>>
                    [] p.tag = "Panic" -> /\ pc' = "panic"
                                          /\ UNCHANGED <<ret, left, right>>
                    [] p.tag = "Less" -> /\ left' = mid + 1
                                         /\ UNCHANGED <<pc, ret, right>>
                    [] p.tag = "Greater" -> RightBelow(mid)
    /\ UNCHANGED <<input, hash, start, step, stop_at, cache, pwned_users, users, out,
                   results, calls, moved, jumped>>

\* the iteration after right wrapped to u64::MAX: mid is at least 2^63 - 1, the
\* seek to it (or the one after it) is refused for a file and unwrap panics
FindWrapped ==
    /\ pc = "find"
    /\ right = -1
    /\ pc' = "panic"
    /\ UNCHANGED <<input, pos, search, cache, pwned_users, users, out, results, ret,
                   calls, moved, jumped, find>>

NextFind == FindStep \/ FindWrapped

SpecFind == InitFind /\ [][NextFind]_vars

-----------------------------------------------------------------------------
(* Reference definitions used to state the properties *)

\* an independent exact lookup of h among the entries of a well-formed file
Lookup(h) ==
    IF \E i \in 1..Len(ref) : ref[i].key = h
    THEN Some(ref[CHOOSE i \in 1..Len(ref) : ref[i].key = h].cnt)
    ELSE None

\* byte offset at which entry i starts
LineStart(i) == Len(Render(SubSeq(ref, 1, i - 1)))

IsPrefix(s, t) == Len(s) <= Len(t) /\ SubSeq(t, 1, Len(s)) = s

\* the last user taken has the hash of the user before
IsRepeat(us) == Len(us) >= 2 /\ us[Len(us)] = us[Len(us) - 1]

\* a line without a colon, or without an integer after it
MalformedLine(buf) ==
    LET sl == Split(Trim(buf)) IN Len(sl) < 2 \/ ~IsNumber(sl[2])

KeyOf(buf) == Split(Trim(buf))[1]

ScenarioRef ==
    << [key |-> <<65, 65, 65, 65>>, kind |-> "ok", cnt |-> 5],
       [key |-> <<66, 66, 66, 66>>, kind |-> "ok", cnt |-> 2],
       [key |-> <<67, 67, 67, 67>>, kind |-> "ok", cnt |-> 9] >>

ScenarioQueries ==
    << <<65, 65, 65, 65>>, <<66, 66, 66, 66>>, <<66, 66, 66, 66>>, <<68, 68, 68, 68>> >>

ScenarioResults == <<Some(5), Some(2), Some(2), None>>

InScenario == ref = ScenarioRef /\ IsPrefix(users, ScenarioQueries)

-----------------------------------------------------------------------------
(* Properties *)

\* C1: on a well-formed sorted file and a non-decreasing batch, what the pipeline
\* yields for each query is the result of an exact lookup of its hash in the file.
C1_PipelineEqualsExactLookup ==
    WellFormed => \A i \in 1..Len(results) : results[i] = Lookup(users[i])

\* C2: a query with the hash of the query before it gets the same result as that
\* query got, whether that was Some(count) or None.
C2_RepeatGetsSameResult ==
    \A i \in 2..Len(results) : users[i] = users[i - 1] => results[i] = results[i - 1]

\* C3: every row of the report is for a user whose hash is in the reference file
\* and carries the count of the line with that key.
C3_ReportOnlyPwned ==
    WellFormed => \A j \in 1..Len(out) : Lookup(users[out[j].user]) = Some(out[j].pwned)

\* C4 as stated: between users the output has one pair per user handled, in order.
C4_OnePairPerQuery ==
    pc = "users" => /\ Len(out) = Len(users)
                    /\ \A j \in 1..Len(out) : out[j].user = j

\* C4 amended: the output holds, in input order, exactly the users for which the
\* closure yielded Some(count), with that count; a user whose search returned None
\* is skipped, so the output can be shorter than the input.
C4_PairsForFoundInOrder ==
    LET found == {i \in 1..Len(results) : results[i] # None}
    IN /\ Len(out) = Cardinality(found)
       /\ Len(out) <= Len(users)
       /\ \A j \in 1..Len(out) : /\ out[j].user \in found
                                 /\ out[j].pwned = results[out[j].user].v
       /\ \A j \in 1..Len(out) : \A k \in 1..Len(out) : j < k => out[j].user < out[k].user

C4_Witness ==
    /\ pc = "users"
    /\ Len(results) = Len(users)
    /\ Len(out) >= 1
    /\ Len(out) < Len(users)
    /\ \E i \in 1..Len(results) : results[i] = None

\* C5: while the user being handled has the hash of the user before, jump_search
\* is not called and the stream is neither read nor moved.
C5_RepeatLeavesCursor ==
    [][IsRepeat(users') => pos' = pos /\ calls' = calls /\ moved' = moved]_vars

C5_Witness ==
    /\ pc = "users"
    /\ IsRepeat(users)
    /\ Len(results) = Len(users)
    /\ calls < Len(users)
    /\ pos > 0

\* C6 as stated: the scenario yields [Some(5), Some(2), Some(2), None] with exactly
\* 2 calls of jump_search.
C6_ScenarioTwoCalls ==
    InScenario /\ Len(results) = 4 => results = ScenarioResults /\ calls = 2

\* C6 amended: the scenario runs without failure, yields [Some(5), Some(2), Some(2),
\* None], and jump_search is called exactly 3 times (queries 1, 2 and 4).
C6_ScenarioThreeCalls ==
    InScenario => /\ pc # "panic"
                  /\ IsPrefix(results, ScenarioResults)
                  /\ Len(results) = 4 => calls = 3

C6_Witness == InScenario /\ Len(results) = 4 /\ calls = 3 /\ results[4] = None

\* C7: a call for a hash below the key of every line at or after the cursor does
\* not fail, keeps the position within the stream and returns None.
C7_BelowRemainingIsNotFound ==
    ( /\ calls > 0
      /\ WellFormed
      /\ start < n
      /\ \A i \in 1..Len(ref) : LineStart(i) >= start => Cmp(hash, ref[i].key) = "Less" )
    => /\ pc # "panic"
       /\ pos <= n
       /\ pc = "users" => ret = None

\* C8: the first call, from offset 0, for a hash the well-formed file holds returns
\* Some(count) after moving at most 2 * n bytes.
C8_FoundWithinTwoTraversals ==
    ( /\ calls = 1
      /\ start = 0
      /\ WellFormed
      /\ \E i \in 1..Len(ref) : ref[i].key = hash )
    => /\ pc # "panic"
       /\ pc = "users" => ret = Lookup(hash) /\ moved <= 2 * n

\* C9 as stated: the search does not go on after comparing a malformed line,
\* whether it compared Less (pc = "seek") or Greater (pc = "back").
C9_MalformedAlwaysFatal ==
    pc \in {"seek", "back"} => ~MalformedLine(line)

\* C9 amended: the comparison of a malformed line is fatal exactly when its key is
\* Equal to the target; a malformed line that compares Less or Greater is handled
\* as any other line.
C9_MalformedFatalOnEqual ==
    [][ LET got == ReadLine(pos)
            buf == IF pc = "jump" THEN line \o got ELSE got
            compares == \/ pc = "jump" /\ got # <<>>
                        \/ pc = "scan" /\ pos < stop_at
        IN compares /\ MalformedLine(buf)
             => (pc' = "panic" <=> Cmp(KeyOf(buf), hash) = "Equal") ]_vars

C9_Witness ==
    /\ pc = "panic"
    /\ MalformedLine(line)
    /\ Cmp(KeyOf(line), hash) = "Equal"

\* C10: a call for a hash above the key of the last line of the file never enters
\* the backtrack phase, does not fail, and returns None.
C10_AboveMaximumIsNotFound ==
    ( /\ calls > 0
      /\ Len(ref) > 0
      /\ Cmp(ref[Len(ref)].key, hash) = "Less" )
    => /\ pc \notin {"panic", "back", "scan"}
       /\ pc = "users" => ret = None

C10_Witness ==
    /\ pc = "users"
    /\ calls > 1
    /\ Len(ref) > 1
    /\ Cmp(ref[Len(ref)].key, hash) = "Less"
    /\ start > 0
    /\ start < n
    /\ ret = None

\* C11: every jump_search call that is entered eventually returns to the loop of
\* main or fails fatally; neither the jump loop nor the scan loop runs forever.
C11_SearchTerminates ==
    (pc \in {"jump", "seek", "back", "scan"}) ~> (pc \in {"users", "panic"})

C11_Witness ==
    /\ pc = "users"
    /\ calls > 0
    /\ jumped > start
    /\ stop_at > jumped
    /\ pos = stop_at

\* C12: on the empty reference file every query of every sequence yields None and
\* nothing fails.
C12_EmptyFileAllNone ==
    ref = <<>> => /\ pc # "panic"
                  /\ \A i \in 1..Len(results) : results[i] = None

\* C13: on the file of the single line Z..Z:1 a first query Z..Z yields Some(1); and
\* whenever the line at the cursor of the jump loop is a line of the file whose key
\* is the target, the call returns that line's count from this very read, with no
\* seek by step and no backtrack.
C13_EqualAtCursorReturnsCount ==
    [][ /\ ( ref = SingleEntry(w) /\ Len(results) = 0 /\ Len(results') = 1
                /\ users'[1] = KeyStr(90, w) ) => results'[1] = Some(1)
        /\ \A i \in 1..Len(ref) :
             ( /\ pc = "jump"
               /\ pos = LineStart(i)
               /\ ref[i].kind = "ok"
               /\ ref[i].key = hash )
             => /\ pc' = "users"
                /\ ret' = Some(ref[i].cnt)
                /\ results' = Append(results, Some(ref[i].cnt))
                /\ pos' = pos + Len(LineBytes(ref[i]))
                /\ stop_at' = 0 ]_vars

C13_Witness ==
    /\ ref = SingleEntry(w)
    /\ w = 4
    /\ users = <<KeyStr(90, w)>>
    /\ results = <<Some(1)>>
    /\ pc = "users"
    /\ pos = n

\* C14: after a call whose jump phase stopped on a Greater line, a target whose line
\* starts between the previous jump point and stop_at has been compared by the
\* backtrack scan and is returned with its count.
C14_SegmentTargetFound ==
    ( /\ WellFormed
      /\ pc = "users"
      /\ calls > 0
      /\ stop_at > 0 )
    => \A i \in 1..Len(ref) :
         ( /\ ref[i].key = hash
           /\ jumped <= LineStart(i)
           /\ LineStart(i) < stop_at ) => ret = Some(ref[i].cnt)

\* C15: when a jump_search call has returned, the stream position is not below
\* the position at which that call started.
C15_ReturnsAtOrAfterStart ==
    pc = "users" /\ calls > 0 => pos >= start

\* C16: on a well-formed file the backward seek that opens the backtrack phase
\* targets a non-negative offset: the position where the jump phase stopped is at
\* least step.
C16_BackwardSeekNonNegative ==
    WellFormed /\ pc = "back" => pos >= step

\* the stream position is the start of a line, or at or after the end of the stream
AtBoundary(p) == p >= n \/ \E i \in 1..Len(ref) : p = LineStart(i)

\* C17: every call starts at a line boundary (or at or after the end of the stream);
\* every read whose result is compared starts at the start of a line with the
\* buffer emptied first, and the string compared is exactly that one line.
C17_ComparesWholeLines ==
    [][ /\ pc = "users" /\ pc' = "jump" => AtBoundary(pos)
        /\ pc = "jump" => line = <<>> /\ AtBoundary(pos)
        /\ ( \/ pc = "jump" /\ ReadLine(pos) # <<>>
             \/ pc = "scan" /\ pos < stop_at )
           => \E i \in 1..Len(ref) : /\ pos = LineStart(i)
                                      /\ line' = LineBytes(ref[i])
                                      /\ pos' = pos + Len(LineBytes(ref[i])) ]_vars

C17_Witness ==
    /\ pc = "scan"
    /\ pos < stop_at
    /\ \E i \in 1..Len(ref) : /\ line = LineBytes(ref[i])
                               /\ pos = LineStart(i) + Len(line)
                               /\ LineStart(i) > stop_at - step

\* C18: from the moment stop_at is taken to the return of the call the position is
\* at or before stop_at.
C18_BacktrackWithinStopAt ==
    stop_at > 0 => pos <= stop_at

C18_Witness ==
    /\ pc = "scan"
    /\ stop_at - step > 0
    /\ pos > stop_at - step
    /\ pos < stop_at
    /\ ~AtBoundary(stop_at - step)

\* C19: on a well-formed file what find_hash returns is Some(count) of the line
\* whose key is the hash, the first line included, and None when no line has that
\* key.
C19_FindHashEqualsLookup ==
    WellFormed /\ pc = "done" => ret = Lookup(hash)

\* C20: whenever find_hash is about to execute right = mid - 1 (the compared line
\* is Greater than the target), mid is at least 1.
C20_RightNeverUnderflows ==
    ( /\ pc = "find"
      /\ right >= 0
      /\ left <= right
      /\ Probe(MidLine, hash).tag = "Greater" ) => Mid >= 1

====
